---- MODULE Spec2Model ----
(***************************************************************************)
(* Model of wtsi-hgi/openstack-tools: the glancecp copy run                *)
(* (openstacktools/glancecp.py, GlanceCPShell.main) and the bulk delete    *)
(* tools glancenuke and glancerm (openstacktools/glancenuke.py,            *)
(* openstacktools/glancerm.py), and of two functions of glancecp.py on     *)
(* their own: parse_specification and data_to_upload_stream.               *)
(*                                                                         *)
(* Strings of the program that are compared with each other (image ids,    *)
(* image names, the source specification) are modelled as integers of one  *)
(* universe: names are 1..MaxName, 0 is the empty string, source ids are   *)
(* SrcBase+1.., pre-existing destination ids DestBase+1.., ids handed out  *)
(* by the destination registry on create NewBase+1.. .                     *)
(***************************************************************************)
EXTENDS Integers, Sequences, FiniteSets, TLC

\* ---------------------------------------------------------------- bounds
MaxName == 2
MaxSrc == 2
MaxDest == 2

SrcBase == 100
DestBase == 200
NewBase == 300
EmptyStr == 0

Names == 1..MaxName
SrcIds == (SrcBase + 1)..(SrcBase + MaxSrc)
DestIds == (DestBase + 1)..(DestBase + MaxDest)

\* the values --duplicate-name-strategy / --duplicate_name_strategy are used with
Strategies == {"none", "allow", "replace", "rename"}

NoImage == [id |-> 0, name |-> 0]
NoMsg == [kind |-> "", causes |-> {}]
NoExc == ""
NoLookup == [got |-> NoImage, named |-> {}]

\* ----------------------------------------------------- state of a copy run
VARIABLES
    argDest,       \* dest_name ("" = EmptyStr)
    strategy,      \* args.duplicate_name_strategy
    dest,          \* destination registry: set of [id, name, protected, uploaded]
    pre,           \* destination registry as it was when the run started
    pc,            \* position of main
    sourceImage,   \* source_image
    destName,      \* dest_image_properties['name']
    remaining,     \* images of dest_client.images.list() not yet iterated
    destImageId,   \* dest_image.id (0 before create)
    calls,         \* calls issued to the destination registry, in order
    exitMsg,       \* message of utils.exit: kind and the exceptions it contains
    printedId,     \* id printed on success (0 = nothing printed)
    runNo,         \* number of the run
    prevSource,    \* the source image of the first run (NoImage in the first run)
    ue,            \* the exception caught at line 736 (NoExc = none)
    de,            \* the exception caught at line 739 (NoExc = none)
    lookup         \* what the source registry held for source_id_or_name:
                   \* [got, named], the image of that id and the images of that name

cpVars == <<argDest, strategy, dest, pre, pc, sourceImage, destName, remaining,
            destImageId, calls, exitMsg, printedId, runNo, prevSource, ue, de,
            lookup>>

\* ------------------------------------------- state of a bulk delete run
VARIABLES
    tool,          \* "glancenuke" or "glancerm"
    tenant,        \* the registry of the tenant: set of [id, protected]
    quiet,         \* arguments.quiet
    noConsent,     \* arguments.no_consent_required / arguments.no_consent
    maxDeletes,    \* arguments.max_simultaneous_deletes
    bpc,           \* position of main
    toDelete,      \* to_delete of the initial scan
    toLeave,       \* to_leave of the initial scan
    idx,           \* loop index i (of _delete_images, of the loop of glancerm)
    fut,           \* futures: per index of image_ids [st, res, cb]
    queue,         \* work queue of the executor (indices of image_ids)
    thr,           \* threads: 0 is the main thread, 1.. the workers: [st, i, tmp]
    lock,          \* holder of complete_lock (NoHolder = free)
    complete,      \* complete
    failed,        \* failed
    emitted,       \* the tuples given to outputter by on_complete, in order
    scanned,       \* the listing the initial scan iterated over
    delCalls,      \* the ids given to client.images.delete, in order
    returned,      \* per index: how the delete calls ended, in order
    cbRuns,        \* per index: number of times on_complete was run
    retVal,        \* value returned by _delete_images (-1 = not returned)
    report,        \* the final report: [kind, ids]
    exitCode,      \* exit code of the process (-1 = running)
    consent        \* the line get_consent read: [asked, line]

bulkVars == <<tool, tenant, quiet, noConsent, maxDeletes, bpc, toDelete, toLeave,
              idx, fut, queue, thr, lock, complete, failed, emitted, scanned,
              delCalls, returned, cbRuns, retVal, report, exitCode, consent>>

\* ------------------------------------- state of a call of parse_specification
VARIABLES
    spec,          \* the argument spec: a sequence of characters
    parsed,        \* what the call gave: [raised, env, id_or_name]
    ppc            \* position of the call

parseVars == <<spec, parsed, ppc>>

\* ------------------------------------------------ state of an upload stream
VARIABLES
    data,          \* the chunks data yields, as given to data_to_upload_stream
    bufferSize,    \* buffer_size
    pullSize,      \* the size the consumer reads with
    dataIter,      \* data_iter: the chunks not yet taken by next()
    remainingData, \* remaining_data (<<>> for None and for b"")
    rbuf,          \* bytes the BufferedReader holds and has not handed out
    pulls,         \* the reads made so far: [out, dry, raw]
    spc            \* position of the consumer

streamVars == <<data, bufferSize, pullSize, dataIter, remainingData, rbuf, pulls, spc>>

pureVars == <<parseVars, streamVars>>

vars == <<cpVars, bulkVars, pureVars>>

\* ------------------------------------------------------------- helpers
RECURSIVE SetToSeq(_)
\* a listing of a registry, in ascending id order
SetToSeq(S) ==
    IF S = {} THEN <<>>
    ELSE LET m == CHOOSE x \in S : \A y \in S : x.id <= y.id
         IN <<m>> \o SetToSeq(S \ {m})

\* source_client.images.get(x): the image with that id, or HTTPNotFound
GetById(inv, x) ==
    IF \E im \in inv : im.id = x
    THEN [found |-> TRUE, image |-> CHOOSE im \in inv : im.id = x]
    ELSE [found |-> FALSE, image |-> NoImage]

RECURSIVE ScanByName_FirstWins(_, _, _, _, _)
\* ScanByName without the exit at a second image of the name
ScanByName_FirstWins(lst, i, x, found, img) ==
    IF i > Len(lst) THEN [exit |-> FALSE, image |-> img]
    ELSE IF lst[i].name = x /\ ~found
         THEN ScanByName_FirstWins(lst, i + 1, x, TRUE, lst[i])
         ELSE ScanByName_FirstWins(lst, i + 1, x, found, img)

RECURSIVE ScanByName(_, _, _, _, _)
\* the fallback loop over source_client.images.list()
ScanByName(lst, i, x, found, img) ==
    IF i > Len(lst) THEN [exit |-> FALSE, image |-> img]
    ELSE IF lst[i].name = x
         THEN IF found THEN [exit |-> TRUE, image |-> img]
              ELSE ScanByName(lst, i + 1, x, TRUE, lst[i])
         ELSE ScanByName(lst, i + 1, x, found, img)

\* "find source image": get by id, on HTTPNotFound scan by name
FindSourceImage(inv, x) ==
    LET g == GetById(inv, x)
    IN IF g.found THEN [exit |-> FALSE, image |-> g.image]
       ELSE ScanByName(SetToSeq(inv), 1, x, FALSE, NoImage)

\* "set or copy name"
DestImageName(dname, simg) == IF dname # EmptyStr THEN dname ELSE simg.name

Call(op, id, ok) == [op |-> op, id |-> id, ok |-> ok]

Exit(kind, causes) == [kind |-> kind, causes |-> causes]

\* ----------------------------------------------------------------- Init
SrcInventories ==
    {inv \in SUBSET [id : SrcIds, name : Names] :
        \A a, b \in inv : a.id = b.id => a = b}

DestInventories ==
    {inv \in SUBSET [id : DestIds, name : Names, protected : BOOLEAN, uploaded : {TRUE}] :
        \A a, b \in inv : a.id = b.id => a = b}

\* ------------------------------------------------ bulk delete: helpers
MaxImages == 2
MaxPar == 2

NoHolder == -1
MainThread == 0
IdleThread == [st |-> "idle", i |-> 0, tmp |-> 0]
NoReport == [kind |-> "", ids |-> {}]
NotAsked == [asked |-> FALSE, line |-> ""]

BulkIdle ==
    /\ tool = ""
    /\ tenant = {}
    /\ quiet = FALSE
    /\ noConsent = FALSE
    /\ maxDeletes = 0
    /\ bpc = "off"
    /\ toDelete = <<>>
    /\ toLeave = <<>>
    /\ idx = 0
    /\ fut = <<>>
    /\ queue = <<>>
    /\ thr = (MainThread :> IdleThread)
    /\ lock = NoHolder
    /\ complete = 0
    /\ failed = 0
    /\ emitted = <<>>
    /\ scanned = {}
    /\ delCalls = <<>>
    /\ returned = <<>>
    /\ cbRuns = <<>>
    /\ retVal = -1
    /\ report = NoReport
    /\ exitCode = -1
    /\ consent = NotAsked

NoParse == [raised |-> FALSE, env |-> <<>>, id_or_name |-> <<>>]

ParseIdle ==
    /\ spec = <<>>
    /\ parsed = NoParse
    /\ ppc = "off"

StreamIdle ==
    /\ data = <<>>
    /\ bufferSize = 0
    /\ pullSize = 0
    /\ dataIter = <<>>
    /\ remainingData = <<>>
    /\ rbuf = <<>>
    /\ pulls = <<>>
    /\ spc = "off"

\* what the lookup of source_id_or_name gives, over the source registries and
\* the values of source_id_or_name
SourceLookups ==
    {[exit |-> FindSourceImage(inv, x).exit,
      image |-> FindSourceImage(inv, x).image,
      got |-> GetById(inv, x).image,
      named |-> {im \in inv : im.name = x}] :
        inv \in SrcInventories, x \in SrcIds \cup Names}

InitCp ==
    /\ argDest \in Names \cup {EmptyStr}
    /\ strategy \in Strategies
    /\ dest \in DestInventories
    /\ pre = dest
    /\ pc = "find_source"
    /\ sourceImage = NoImage
    /\ destName = EmptyStr
    /\ remaining = {}
    /\ destImageId = 0
    /\ calls = <<>>
    /\ exitMsg = NoMsg
    /\ printedId = 0
    /\ runNo = 1
    /\ prevSource = NoImage
    /\ ue = NoExc
    /\ de = NoExc
    /\ lookup = NoLookup
    /\ BulkIdle
    /\ ParseIdle
    /\ StreamIdle

\* -------------------------------------------------- actions of the copy run
\* lines 667-699: find the source image, prepare the destination properties;
\* the source registry and source_id_or_name are inputs, and the second run
\* looks up the same source as the first
FindSource ==
    /\ UNCHANGED <<bulkVars, pureVars>>
    /\ pc = "find_source"
    /\ \E r \in SourceLookups :
            /\ runNo > 1 => (~r.exit /\ r.image = prevSource)
            /\ lookup' = [got |-> r.got, named |-> r.named]
            /\ IF r.exit
               THEN /\ pc' = "exit"
                    /\ exitMsg' = Exit("multiple_source", {})
                    /\ UNCHANGED <<sourceImage, destName>>
               ELSE IF r.image = NoImage
               THEN /\ pc' = "exit"
                    /\ exitMsg' = Exit("source_not_found", {})
                    /\ UNCHANGED <<sourceImage, destName>>
               ELSE /\ sourceImage' = r.image
                    /\ destName' = DestImageName(argDest, r.image)
                    /\ pc' = "plan"
                    /\ UNCHANGED exitMsg
    /\ UNCHANGED <<argDest, strategy, dest, pre, remaining, destImageId, calls,
                   printedId, runNo, prevSource, ue, de>>

\* line 701: strategy allow skips the scan of the destination
PlanAllow ==
    /\ UNCHANGED <<bulkVars, pureVars>>
    /\ pc = "plan"
    /\ strategy = "allow"
    /\ pc' = "create"
    /\ UNCHANGED <<argDest, strategy, dest, pre,
                   sourceImage, destName, remaining, destImageId, calls, exitMsg,
                   printedId, runNo, prevSource, ue, de>>
    /\ UNCHANGED lookup

\* line 703: dest_client.images.list()
ListDest ==
    /\ UNCHANGED <<bulkVars, pureVars>>
    /\ pc = "plan"
    /\ strategy # "allow"
    /\ remaining' = dest
    /\ calls' = Append(calls, Call("list", 0, TRUE))
    /\ pc' = "dup_loop"
    /\ UNCHANGED <<argDest, strategy, dest, pre,
                   sourceImage, destName, destImageId, exitMsg, printedId,
                   runNo, prevSource, ue, de>>
    /\ UNCHANGED lookup

\* DupSkip with strategy none left out of the test of line 712
DupSkip_IgnoresNone ==
    /\ UNCHANGED <<bulkVars, pureVars>>
    /\ pc = "dup_loop"
    /\ \E im \in remaining :
        /\ \/ im.name # destName
           \/ strategy \notin {"replace"}
        /\ remaining' = remaining \ {im}
    /\ UNCHANGED <<argDest, strategy, dest, pre, pc,
                   sourceImage, destName, destImageId, calls, exitMsg, printedId,
                   runNo, prevSource, ue, de>>
    /\ UNCHANGED lookup

\* DupSkip with strategy replace left out of the test of line 705
DupSkip_IgnoresReplace ==
    /\ UNCHANGED <<bulkVars, pureVars>>
    /\ pc = "dup_loop"
    /\ \E im \in remaining :
        /\ \/ im.name # destName
           \/ strategy \notin {"none"}
        /\ remaining' = remaining \ {im}
    /\ UNCHANGED <<argDest, strategy, dest, pre, pc,
                   sourceImage, destName, destImageId, calls, exitMsg, printedId,
                   runNo, prevSource, ue, de>>
    /\ UNCHANGED lookup

\* lines 703-705: an image of the listing that needs nothing done
DupSkip ==
    /\ UNCHANGED <<bulkVars, pureVars>>
    /\ pc = "dup_loop"
    /\ \E im \in remaining :
        /\ \/ im.name # destName
           \/ strategy \notin {"replace", "none"}
        /\ remaining' = remaining \ {im}
    /\ UNCHANGED <<argDest, strategy, dest, pre, pc,
                   sourceImage, destName, destImageId, calls, exitMsg, printedId,
                   runNo, prevSource, ue, de>>
    /\ UNCHANGED lookup

\* the destination registry refuses to delete a protected image
DeleteSucceeds(im) == ~im.protected

\* lines 705-708: replace deletes the image of that name, the delete succeeds
DupDeleteOk ==
    /\ UNCHANGED <<bulkVars, pureVars>>
    /\ pc = "dup_loop"
    /\ strategy = "replace"
    /\ \E im \in remaining :
        /\ im.name = destName
        /\ DeleteSucceeds(im)
        /\ calls' = Append(calls, Call("delete", im.id, TRUE))
        /\ dest' = {d \in dest : d.id # im.id}
        /\ remaining' = remaining \ {im}
    /\ UNCHANGED <<argDest, strategy, pre, pc,
                   sourceImage, destName, destImageId, exitMsg, printedId,
                   runNo, prevSource, ue, de>>
    /\ UNCHANGED lookup

\* lines 707-711: the delete raises, utils.exit
DupDeleteFail ==
    /\ UNCHANGED <<bulkVars, pureVars>>
    /\ pc = "dup_loop"
    /\ strategy = "replace"
    /\ \E im \in remaining :
        /\ im.name = destName
        /\ calls' = Append(calls, Call("delete", im.id, FALSE))
        /\ remaining' = remaining \ {im}
    /\ exitMsg' = Exit("delete_conflicting_failed", {"delete_error"})
    /\ pc' = "exit"
    /\ UNCHANGED <<argDest, strategy, dest, pre,
                   sourceImage, destName, destImageId, printedId, runNo, prevSource, ue, de>>
    /\ UNCHANGED lookup

\* lines 712-721: strategy none meets an image of that name
DupNoneExit ==
    /\ UNCHANGED <<bulkVars, pureVars>>
    /\ pc = "dup_loop"
    /\ strategy = "none"
    /\ \E im \in remaining : im.name = destName
    /\ exitMsg' = Exit("duplicate_name", {})
    /\ pc' = "exit"
    /\ UNCHANGED <<argDest, strategy, dest, pre,
                   sourceImage, destName, remaining, destImageId, calls,
                   printedId, runNo, prevSource, ue, de>>
    /\ UNCHANGED lookup

\* the listing is exhausted
DupDone ==
    /\ UNCHANGED <<bulkVars, pureVars>>
    /\ pc = "dup_loop"
    /\ remaining = {}
    /\ pc' = "create"
    /\ UNCHANGED <<argDest, strategy, dest, pre,
                   sourceImage, destName, remaining, destImageId, calls, exitMsg,
                   printedId, runNo, prevSource, ue, de>>
    /\ UNCHANGED lookup

\* lines 728-729: dest_client.images.create succeeds
CreateOk ==
    /\ UNCHANGED <<bulkVars, pureVars>>
    /\ pc = "create"
    /\ LET newId == NewBase + runNo
       IN /\ destImageId' = newId
          /\ dest' = dest \cup {[id |-> newId, name |-> destName,
                                 protected |-> FALSE, uploaded |-> FALSE]}
          /\ calls' = Append(calls, Call("create", newId, TRUE))
    /\ pc' = "upload"
    /\ UNCHANGED <<argDest, strategy, pre,
                   sourceImage, destName, remaining, exitMsg, printedId,
                   runNo, prevSource, ue, de>>
    /\ UNCHANGED lookup

\* CreateFail that goes on to the delete of the handler of the upload
CreateFail_ThenCompensate ==
    /\ UNCHANGED <<bulkVars, pureVars>>
    /\ pc = "create"
    /\ calls' = Append(calls, Call("create", 0, FALSE))
    /\ exitMsg' = Exit("create_failed", {"create_error"})
    /\ pc' = "compensate"
    /\ UNCHANGED <<argDest, strategy, dest, pre,
                   sourceImage, destName, remaining, destImageId, printedId,
                   runNo, prevSource, ue, de>>
    /\ UNCHANGED lookup

\* lines 730-731: create raises
CreateFail ==
    /\ UNCHANGED <<bulkVars, pureVars>>
    /\ pc = "create"
    /\ calls' = Append(calls, Call("create", 0, FALSE))
    /\ exitMsg' = Exit("create_failed", {"create_error"})
    /\ pc' = "exit"
    /\ UNCHANGED <<argDest, strategy, dest, pre,
                   sourceImage, destName, remaining, destImageId, printedId,
                   runNo, prevSource, ue, de>>
    /\ UNCHANGED lookup

\* lines 734-735, 744: the upload succeeds, the id is printed
UploadOk ==
    /\ UNCHANGED <<bulkVars, pureVars>>
    /\ pc = "upload"
    /\ dest' = {IF d.id = destImageId THEN [d EXCEPT !.uploaded = TRUE] ELSE d : d \in dest}
    /\ calls' = Append(calls, Call("upload", destImageId, TRUE))
    /\ printedId' = destImageId
    /\ pc' = "done"
    /\ UNCHANGED <<argDest, strategy, pre,
                   sourceImage, destName, remaining, destImageId, exitMsg,
                   runNo, prevSource, ue, de>>
    /\ UNCHANGED lookup

\* lines 735-736: the upload raises
UploadFail ==
    /\ UNCHANGED <<bulkVars, pureVars>>
    /\ pc = "upload"
    /\ calls' = Append(calls, Call("upload", destImageId, FALSE))
    /\ ue' = "upload_error"
    /\ pc' = "compensate"
    /\ UNCHANGED <<argDest, strategy, dest, pre,
                   sourceImage, destName, remaining, destImageId, exitMsg,
                   printedId, runNo, prevSource, de>>
    /\ UNCHANGED lookup

\* line 735 with images.data() = None: iter(None) raises TypeError inside the
\* try, before the upload call is made
UploadNoData ==
    /\ UNCHANGED <<bulkVars, pureVars>>
    /\ pc = "upload"
    /\ ue' = "type_error"
    /\ pc' = "compensate"
    /\ UNCHANGED <<argDest, strategy, dest, pre,
                   sourceImage, destName, remaining, destImageId, calls, exitMsg,
                   printedId, runNo, prevSource, de>>
    /\ UNCHANGED lookup

\* CompensateOk deleting an image other than dest_image
CompensateOk_AnyImage ==
    /\ UNCHANGED <<bulkVars, pureVars>>
    /\ pc = "compensate"
    /\ \E d \in dest :
        /\ dest' = dest \ {d}
        /\ calls' = Append(calls, Call("delete", d.id, TRUE))
    /\ exitMsg' = Exit("upload_failed", {ue})
    /\ pc' = "exit"
    /\ UNCHANGED <<argDest, strategy, pre,
                   sourceImage, destName, remaining, destImageId, printedId,
                   runNo, prevSource, ue, de>>
    /\ UNCHANGED lookup

\* lines 737-741: the compensating delete succeeds, the upload error is reported
CompensateOk ==
    /\ UNCHANGED <<bulkVars, pureVars>>
    /\ pc = "compensate"
    /\ dest' = {d \in dest : d.id # destImageId}
    /\ calls' = Append(calls, Call("delete", destImageId, TRUE))
    /\ exitMsg' = Exit("upload_failed", {ue})
    /\ pc' = "exit"
    /\ UNCHANGED <<argDest, strategy, pre,
                   sourceImage, destName, remaining, destImageId, printedId,
                   runNo, prevSource, ue, de>>
    /\ UNCHANGED lookup

\* lines 737-740: the compensating delete raises, utils.exit with that exception
CompensateFail ==
    /\ UNCHANGED <<bulkVars, pureVars>>
    /\ pc = "compensate"
    /\ calls' = Append(calls, Call("delete", destImageId, FALSE))
    /\ de' = "delete_error"
    /\ exitMsg' = Exit("delete_after_upload_failed", {"delete_error"})
    /\ pc' = "exit"
    /\ UNCHANGED <<argDest, strategy, dest, pre,
                   sourceImage, destName, remaining, destImageId, printedId,
                   runNo, prevSource, ue>>
    /\ UNCHANGED lookup

\* after a successful run the same command line is run a second time, against
\* the destination registry as the first run left it
RunAgain ==
    /\ UNCHANGED <<bulkVars, pureVars>>
    /\ pc = "done"
    /\ runNo = 1
    /\ runNo' = 2
    /\ prevSource' = sourceImage
    /\ pre' = dest
    /\ pc' = "find_source"
    /\ sourceImage' = NoImage
    /\ destName' = EmptyStr
    /\ remaining' = {}
    /\ destImageId' = 0
    /\ calls' = <<>>
    /\ exitMsg' = NoMsg
    /\ printedId' = 0
    /\ ue' = NoExc
    /\ de' = NoExc
    /\ lookup' = NoLookup
    /\ UNCHANGED <<argDest, strategy, dest>>

NextCp ==
    \/ FindSource
    \/ PlanAllow
    \/ ListDest
    \/ DupSkip
    \/ DupDeleteOk
    \/ DupDeleteFail
    \/ DupNoneExit
    \/ DupDone
    \/ CreateOk
    \/ CreateFail
    \/ UploadOk
    \/ UploadFail
    \/ UploadNoData
    \/ CompensateOk
    \/ CompensateFail
    \/ RunAgain

SpecCp == InitCp /\ [][NextCp]_vars

\* =================================================== the bulk delete tools
CpIdle ==
    /\ argDest = EmptyStr
    /\ strategy = ""
    /\ dest = {}
    /\ pre = {}
    /\ pc = "off"
    /\ sourceImage = NoImage
    /\ destName = EmptyStr
    /\ remaining = {}
    /\ destImageId = 0
    /\ calls = <<>>
    /\ exitMsg = NoMsg
    /\ printedId = 0
    /\ runNo = 0
    /\ prevSource = NoImage
    /\ ue = NoExc
    /\ de = NoExc
    /\ lookup = NoLookup

Tenants ==
    {t \in SUBSET [id : 1..MaxImages, protected : BOOLEAN] :
        \A a, b \in t : a.id = b.id => a = b}

RECURSIVE GetImagesLoop_NoPartition(_, _, _, _)
\* GetImagesLoop without the test of the protected property
GetImagesLoop_NoPartition(lst, i, del, leave) ==
    IF i > Len(lst) THEN [to_delete |-> del, to_leave |-> leave]
    ELSE GetImagesLoop_NoPartition(lst, i + 1, Append(del, lst[i].id), leave)

RECURSIVE GetImagesLoop(_, _, _, _)
\* the loop of _get_images over client.images.list()
GetImagesLoop(lst, i, del, leave) ==
    IF i > Len(lst) THEN [to_delete |-> del, to_leave |-> leave]
    ELSE IF lst[i].protected
         THEN GetImagesLoop(lst, i + 1, del, Append(leave, lst[i].id))
         ELSE GetImagesLoop(lst, i + 1, Append(del, lst[i].id), leave)

\* _get_images(client)
GetImages(reg) == GetImagesLoop(SetToSeq(reg), 1, <<>>, <<>>)

\* `to_delete == 0`: a list never equals an int
ListEqualsZero(lst) == FALSE

\* --ignore-delete-failures is store_true with default=True
IgnoreDeleteFailures == TRUE

Range(f) == {f[k] : k \in DOMAIN f}

Workers == DOMAIN thr \ {MainThread}

\* MaySpawn of an executor that starts a thread for every submitted item
MaySpawn_Unbounded(n, maxWorkers) == TRUE

\* ThreadPoolExecutor(max_workers=n): a thread is started on submit while
\* fewer than n exist
MaySpawn(n, maxWorkers) == n < maxWorkers

\* `with complete_lock`: the lock can be taken when nobody holds it
CanAcquire(holder) == holder = NoHolder

\* the delete calls in flight: started and not yet returned
InFlight == {w \in Workers : thr[w].st = "calling"}

\* where main goes after the consent step
AfterConsent(lst) ==
    IF tool = "glancerm" /\ Len(lst) = 0 THEN "rescan" ELSE "delete"

\* the loop `for i in range(len(image_ids))` goes on or is over
AfterSubmit(i) == IF i > Len(toDelete) THEN "shutdown" ELSE "submit"

InitBulk ==
    /\ CpIdle
    /\ ParseIdle
    /\ StreamIdle
    /\ tool \in {"glancenuke", "glancerm"}
    /\ tenant \in Tenants
    /\ quiet = FALSE
    /\ noConsent = FALSE
    /\ maxDeletes = 0
    /\ bpc = "parse"
    /\ toDelete = <<>>
    /\ toLeave = <<>>
    /\ idx = 0
    /\ fut = <<>>
    /\ queue = <<>>
    /\ thr = (MainThread :> IdleThread)
    /\ lock = NoHolder
    /\ complete = 0
    /\ failed = 0
    /\ emitted = <<>>
    /\ scanned = {}
    /\ delCalls = <<>>
    /\ returned = <<>>
    /\ cbRuns = <<>>
    /\ retVal = -1
    /\ report = NoReport
    /\ exitCode = -1
    /\ consent = NotAsked

\* _parse_args: -q without -y exits with 1
BParseArgs ==
    /\ UNCHANGED <<cpVars, pureVars>>
    /\ bpc = "parse"
    /\ \E q \in BOOLEAN, y \in BOOLEAN,
          p \in IF tool = "glancenuke" THEN 0..MaxPar ELSE {0} :
        /\ quiet' = q
        /\ noConsent' = y
        /\ maxDeletes' = p
        /\ IF q /\ ~y
           THEN bpc' = "exit" /\ exitCode' = 1
           ELSE bpc' = "scan" /\ UNCHANGED exitCode
    /\ UNCHANGED <<tool, tenant, toDelete, toLeave, idx, fut, queue, thr, lock,
                   complete, failed, emitted, scanned, delCalls, returned, cbRuns, retVal,
                   report>>
    /\ UNCHANGED consent

\* main: the initial scan and the announcement
BScan ==
    /\ UNCHANGED <<cpVars, pureVars>>
    /\ bpc = "scan"
    /\ LET r == GetImages(tenant)
       IN /\ toDelete' = r.to_delete
          /\ toLeave' = r.to_leave
          /\ scanned' = tenant
          /\ returned' = [k \in 1..Len(r.to_delete) |-> <<>>]
          /\ cbRuns' = [k \in 1..Len(r.to_delete) |-> 0]
          /\ idx' = 1
          /\ IF ListEqualsZero(r.to_delete)
             THEN /\ report' = [kind |-> "no_images", ids |-> {}]
                  /\ exitCode' = 0
                  /\ bpc' = "exit"
             ELSE /\ bpc' = IF noConsent THEN AfterConsent(r.to_delete) ELSE "consent"
                  /\ UNCHANGED <<report, exitCode>>
    /\ UNCHANGED <<tool, tenant, quiet, noConsent, maxDeletes, fut, queue, thr,
                   lock, complete, failed, emitted, delCalls, retVal>>
    /\ UNCHANGED consent

\* the lines stdin gives to get_consent, without the line terminator ("" is
\* also what readline gives at end of file)
StdinLines == {"y", " Ok ", "n", ""}

\* _helpers.CONSENT_AGREED
CONSENT_AGREED == {"y", "yes", "yup", "ok", "okey", "do it", "get on with it"}

\* line.lower().strip() on the lines of StdinLines
LowerStrip(line) == IF line = " Ok " THEN "ok" ELSE line

\* GetConsent whatever the answer
GetConsent_AnyAnswer(line) ==
    TRUE

\* _helpers.get_consent with `line` read from stdin
GetConsent(line) ==
    LowerStrip(line) \in CONSENT_AGREED

\* get_consent() returns True
BConsentAgreed ==
    /\ UNCHANGED <<cpVars, pureVars>>
    /\ bpc = "consent"
    /\ \E line \in StdinLines :
          /\ GetConsent(line)
          /\ consent' = [asked |-> TRUE, line |-> line]
    /\ bpc' = AfterConsent(toDelete)
    /\ UNCHANGED <<tool, tenant, quiet, noConsent, maxDeletes, toDelete, toLeave,
                   idx, fut, queue, thr, lock, complete, failed, emitted, scanned, delCalls,
                   returned, cbRuns, retVal, report, exitCode>>

\* get_consent() returns False
BConsentRefused ==
    /\ UNCHANGED <<cpVars, pureVars>>
    /\ bpc = "consent"
    /\ \E line \in StdinLines :
          /\ ~GetConsent(line)
          /\ consent' = [asked |-> TRUE, line |-> line]
    /\ bpc' = "exit"
    /\ exitCode' = 1
    /\ report' = [kind |-> "invalid_consent", ids |-> {}]
    /\ UNCHANGED <<tool, tenant, quiet, noConsent, maxDeletes, toDelete, toLeave,
                   idx, fut, queue, thr, lock, complete, failed, emitted, scanned, delCalls,
                   returned, cbRuns, retVal>>

\* ------------------------------------------- glancenuke: _delete_images
\* lines 69-83: the locals, the executor is constructed
\* (ThreadPoolExecutor raises ValueError when max_workers <= 0)
DeleteImagesEnter ==
    /\ UNCHANGED <<cpVars, pureVars>>
    /\ bpc = "delete"
    /\ tool = "glancenuke"
    /\ IF maxDeletes <= 0
       THEN /\ bpc' = "exit"
            /\ exitCode' = 1
            /\ report' = [kind |-> "traceback", ids |-> {}]
            /\ UNCHANGED fut
       ELSE /\ bpc' = AfterSubmit(1)
            /\ fut' = [k \in 1..Len(toDelete) |->
                          [st |-> "new", res |-> "none", cb |-> FALSE]]
            /\ UNCHANGED <<exitCode, report>>
    /\ UNCHANGED <<tool, tenant, quiet, noConsent, maxDeletes, toDelete, toLeave,
                   idx, queue, thr, lock, complete, failed, emitted, scanned, delCalls,
                   returned, cbRuns, retVal>>
    /\ UNCHANGED consent

\* line 86: executor.submit(_delete_image, client, image_id)
Submit ==
    /\ UNCHANGED <<cpVars, pureVars>>
    /\ bpc = "submit"
    /\ fut' = [fut EXCEPT ![idx].st = "pending"]
    /\ queue' = Append(queue, idx)
    /\ thr' = IF MaySpawn(Cardinality(Workers), maxDeletes)
              THEN thr @@ ((Cardinality(Workers) + 1) :> IdleThread)
              ELSE thr
    /\ bpc' = "add_cb"
    /\ UNCHANGED <<tool, tenant, quiet, noConsent, maxDeletes, toDelete, toLeave,
                   idx, lock, complete, failed, emitted, scanned, delCalls, returned,
                   cbRuns, retVal, report, exitCode>>
    /\ UNCHANGED consent

\* lines 87-88: future.add_done_callback(on_complete): registered, or, when the
\* future is already done, called at once by the main thread
AddDoneCallback ==
    /\ UNCHANGED <<cpVars, pureVars>>
    /\ bpc = "add_cb"
    /\ IF fut[idx].st = "finished"
       THEN /\ thr' = [thr EXCEPT ![MainThread] =
                          [st |-> "cb_acquire", i |-> idx, tmp |-> 0]]
            /\ bpc' = "main_cb"
            /\ UNCHANGED <<fut, idx>>
       ELSE /\ fut' = [fut EXCEPT ![idx].cb = TRUE]
            /\ idx' = idx + 1
            /\ bpc' = AfterSubmit(idx + 1)
            /\ UNCHANGED thr
    /\ UNCHANGED <<tool, tenant, quiet, noConsent, maxDeletes, toDelete, toLeave,
                   queue, lock, complete, failed, emitted, scanned, delCalls, returned,
                   cbRuns, retVal, report, exitCode>>
    /\ UNCHANGED consent

\* a worker thread takes the next work item and starts _delete_image
WorkerTake(w) ==
    /\ UNCHANGED <<cpVars, pureVars>>
    /\ thr[w].st = "idle"
    /\ queue # <<>>
    /\ LET k == Head(queue)
       IN /\ queue' = Tail(queue)
          /\ fut' = [fut EXCEPT ![k].st = "running"]
          /\ thr' = [thr EXCEPT ![w] = [st |-> "calling", i |-> k, tmp |-> 0]]
          /\ delCalls' = Append(delCalls, toDelete[k])
    /\ UNCHANGED <<tool, tenant, quiet, noConsent, maxDeletes, bpc, toDelete,
                   toLeave, idx, lock, complete, failed, emitted, scanned, returned,
                   cbRuns, retVal, report, exitCode>>
    /\ UNCHANGED consent

\* the future of work item k is set to res; its callback, when registered,
\* is run by the worker
FinishFuture(w, res) ==
    LET k == thr[w].i
    IN /\ fut' = [fut EXCEPT ![k].st = "finished", ![k].res = res]
       /\ thr' = [thr EXCEPT ![w].st = IF fut[k].cb THEN "cb_acquire" ELSE "idle"]

\* lines 101-102: client.images.delete succeeds, _delete_image returns True
DeleteOk(w) ==
    /\ UNCHANGED <<cpVars, pureVars>>
    /\ thr[w].st = "calling"
    /\ \E im \in tenant : im.id = toDelete[thr[w].i] /\ DeleteSucceeds(im)
    /\ tenant' = {im \in tenant : im.id # toDelete[thr[w].i]}
    /\ returned' = [returned EXCEPT ![thr[w].i] = Append(@, "ok")]
    /\ FinishFuture(w, "true")
    /\ UNCHANGED <<tool, quiet, noConsent, maxDeletes, bpc, toDelete, toLeave,
                   idx, queue, lock, complete, failed, emitted, scanned, delCalls, cbRuns,
                   retVal, report, exitCode>>
    /\ UNCHANGED consent

\* lines 103-105: HTTPException, _delete_image returns False
DeleteHttpError(w) ==
    /\ UNCHANGED <<cpVars, pureVars>>
    /\ thr[w].st = "calling"
    /\ returned' = [returned EXCEPT ![thr[w].i] = Append(@, "http_error")]
    /\ FinishFuture(w, "false")
    /\ UNCHANGED <<tool, tenant, quiet, noConsent, maxDeletes, bpc, toDelete,
                   toLeave, idx, queue, lock, complete, failed, emitted, scanned, delCalls,
                   cbRuns, retVal, report, exitCode>>
    /\ UNCHANGED consent

\* line 101: an exception that is not an HTTPException leaves _delete_image
\* and is stored in the future
DeleteOtherError(w) ==
    /\ UNCHANGED <<cpVars, pureVars>>
    /\ thr[w].st = "calling"
    /\ returned' = [returned EXCEPT ![thr[w].i] = Append(@, "other_error")]
    /\ FinishFuture(w, "exc")
    /\ UNCHANGED <<tool, tenant, quiet, noConsent, maxDeletes, bpc, toDelete,
                   toLeave, idx, queue, lock, complete, failed, emitted, scanned, delCalls,
                   cbRuns, retVal, report, exitCode>>
    /\ UNCHANGED consent

\* lines 76-77: on_complete takes complete_lock and loads complete
CbAcquire(t) ==
    /\ UNCHANGED <<cpVars, pureVars>>
    /\ thr[t].st = "cb_acquire"
    /\ CanAcquire(lock)
    /\ lock' = t
    /\ thr' = [thr EXCEPT ![t].st = "cb_store", ![t].tmp = complete]
    /\ UNCHANGED <<tool, tenant, quiet, noConsent, maxDeletes, bpc, toDelete,
                   toLeave, idx, fut, queue, complete, failed, emitted, scanned, delCalls,
                   returned, cbRuns, retVal, report, exitCode>>
    /\ UNCHANGED consent

\* lines 77-81: complete += 1 stores; future.result() (which re-raises a stored
\* exception), failed, the progress line; the lock is released; the main
\* thread goes on with its loop
CbFinish(t) ==
    /\ UNCHANGED <<cpVars, pureVars>>
    /\ thr[t].st = "cb_store"
    /\ LET k == thr[t].i
           res == fut[k].res
           c == thr[t].tmp + 1
           f == IF res = "false" THEN failed + 1 ELSE failed
       IN /\ complete' = c
          /\ IF res = "exc"
             THEN UNCHANGED <<failed, emitted>>
             ELSE /\ failed' = f
                  /\ emitted' = Append(emitted, <<c - f, Len(toDelete), f>>)
          /\ cbRuns' = [cbRuns EXCEPT ![k] = @ + 1]
    /\ lock' = NoHolder
    /\ thr' = [thr EXCEPT ![t] = IdleThread]
    /\ IF t = MainThread
       THEN idx' = idx + 1 /\ bpc' = AfterSubmit(idx + 1)
       ELSE UNCHANGED <<idx, bpc>>
    /\ UNCHANGED <<tool, tenant, quiet, noConsent, maxDeletes, toDelete, toLeave,
                   fut, queue, scanned, delCalls, returned, retVal, report,
                   exitCode>>
    /\ UNCHANGED consent

\* lines 78, 87: on_complete called by add_done_callback in the main thread
\* raises at future.result(); an interpreter whose add_done_callback does not
\* catch it lets it leave the with block
MainCbRaises ==
    /\ UNCHANGED <<cpVars, pureVars>>
    /\ thr[MainThread].st = "cb_store"
    /\ fut[thr[MainThread].i].res = "exc"
    /\ complete' = thr[MainThread].tmp + 1
    /\ cbRuns' = [cbRuns EXCEPT ![thr[MainThread].i] = @ + 1]
    /\ lock' = NoHolder
    /\ thr' = [thr EXCEPT ![MainThread] = IdleThread]
    /\ bpc' = "raise_shutdown"
    /\ UNCHANGED <<tool, tenant, quiet, noConsent, maxDeletes, toDelete, toLeave,
                   idx, fut, queue, failed, emitted, scanned, delCalls, returned,
                   retVal, report, exitCode>>
    /\ UNCHANGED consent

\* line 83: the with block is left by the exception: shutdown(wait=True), then
\* the exception leaves _delete_images and main
RaiseAfterShutdown ==
    /\ UNCHANGED <<cpVars, pureVars>>
    /\ bpc = "raise_shutdown"
    /\ queue = <<>>
    /\ \A w \in Workers : thr[w].st = "idle"
    /\ report' = [kind |-> "traceback", ids |-> {}]
    /\ exitCode' = 1
    /\ bpc' = "exit"
    /\ UNCHANGED <<tool, tenant, quiet, noConsent, maxDeletes, toDelete, toLeave,
                   idx, fut, queue, thr, lock, complete, failed, emitted, scanned,
                   delCalls, returned, cbRuns, retVal>>
    /\ UNCHANGED consent

\* ExecutorShutdown of a with block that does not join the workers
ExecutorShutdown_NoJoin ==
    /\ UNCHANGED <<cpVars, pureVars>>
    /\ bpc = "shutdown"
    /\ bpc' = "wait"
    /\ UNCHANGED <<tool, tenant, quiet, noConsent, maxDeletes, toDelete, toLeave,
                   idx, fut, queue, thr, lock, complete, failed, emitted, scanned,
                   delCalls, returned, cbRuns, retVal, report, exitCode>>
    /\ UNCHANGED consent

\* line 83: leaving the with block is executor.shutdown(wait=True): the work
\* queue is drained and the worker threads are joined
ExecutorShutdown ==
    /\ UNCHANGED <<cpVars, pureVars>>
    /\ bpc = "shutdown"
    /\ queue = <<>>
    /\ \A w \in Workers : thr[w].st = "idle"
    /\ bpc' = "wait"
    /\ UNCHANGED <<tool, tenant, quiet, noConsent, maxDeletes, toDelete, toLeave,
                   idx, fut, queue, thr, lock, complete, failed, emitted, scanned, delCalls,
                   returned, cbRuns, retVal, report, exitCode>>
    /\ UNCHANGED consent

\* lines 89-90: wait(futures); return len(image_ids) - failed
WaitAndReturn ==
    /\ UNCHANGED <<cpVars, pureVars>>
    /\ bpc = "wait"
    /\ \A k \in DOMAIN fut : fut[k].st = "finished"
    /\ retVal' = Len(toDelete) - failed
    /\ bpc' = "rescan"
    /\ UNCHANGED <<tool, tenant, quiet, noConsent, maxDeletes, toDelete, toLeave,
                   idx, fut, queue, thr, lock, complete, failed, emitted, scanned, delCalls,
                   returned, cbRuns, report, exitCode>>
    /\ UNCHANGED consent

\* ------------------------------------------------ glancerm: the delete loop
\* glancerm lines 41-44: client.images.delete(image_id) succeeds
RmDeleteOk ==
    /\ UNCHANGED <<cpVars, pureVars>>
    /\ bpc = "delete"
    /\ tool = "glancerm"
    /\ \E im \in tenant : im.id = toDelete[idx] /\ DeleteSucceeds(im)
    /\ tenant' = {im \in tenant : im.id # toDelete[idx]}
    /\ delCalls' = Append(delCalls, toDelete[idx])
    /\ returned' = [returned EXCEPT ![idx] = Append(@, "ok")]
    /\ emitted' = Append(emitted, <<idx, Len(toDelete), 0>>)
    /\ idx' = idx + 1
    /\ bpc' = IF idx + 1 > Len(toDelete) THEN "rescan" ELSE "delete"
    /\ UNCHANGED <<tool, quiet, noConsent, maxDeletes, toDelete, toLeave, fut,
                   queue, thr, lock, complete, failed, scanned, cbRuns, retVal,
                   report, exitCode>>
    /\ UNCHANGED consent

\* glancerm line 43: the delete raises; nothing catches it, the process ends
RmDeleteRaises ==
    /\ UNCHANGED <<cpVars, pureVars>>
    /\ bpc = "delete"
    /\ tool = "glancerm"
    /\ delCalls' = Append(delCalls, toDelete[idx])
    /\ returned' = [returned EXCEPT ![idx] = Append(@, "error")]
    /\ report' = [kind |-> "traceback", ids |-> {}]
    /\ exitCode' = 1
    /\ bpc' = "exit"
    /\ UNCHANGED <<tool, tenant, quiet, noConsent, maxDeletes, toDelete, toLeave,
                   idx, fut, queue, thr, lock, complete, failed, emitted, scanned,
                   cbRuns, retVal>>
    /\ UNCHANGED consent

\* glancenuke lines 46-57, glancerm lines 46-54: the scan after the deletes
BRescan ==
    /\ UNCHANGED <<cpVars, pureVars>>
    /\ bpc = "rescan"
    /\ LET after_delete == GetImages(tenant).to_delete
           not_deleted == Range(toDelete) \cap Range(after_delete)
       IN IF not_deleted # {}
          THEN /\ report' = [kind |-> "could_not_delete", ids |-> not_deleted]
               /\ exitCode' = IF tool = "glancenuke" /\ IgnoreDeleteFailures
                              THEN 0 ELSE 1
          ELSE /\ report' = [kind |-> "all_gone", ids |-> {}]
               /\ exitCode' = 0
    /\ bpc' = "exit"
    /\ UNCHANGED <<tool, tenant, quiet, noConsent, maxDeletes, toDelete, toLeave,
                   idx, fut, queue, thr, lock, complete, failed, emitted, scanned, delCalls,
                   returned, cbRuns, retVal>>
    /\ UNCHANGED consent

NextBulk ==
    \/ BParseArgs
    \/ BScan
    \/ BConsentAgreed
    \/ BConsentRefused
    \/ DeleteImagesEnter
    \/ Submit
    \/ AddDoneCallback
    \/ \E w \in Workers : WorkerTake(w)
    \/ \E w \in Workers : DeleteOk(w)
    \/ \E w \in Workers : DeleteHttpError(w)
    \/ \E w \in Workers : DeleteOtherError(w)
    \/ \E t \in DOMAIN thr : CbAcquire(t)
    \/ \E t \in DOMAIN thr : CbFinish(t)
    \/ MainCbRaises
    \/ RaiseAfterShutdown
    \/ ExecutorShutdown
    \/ WaitAndReturn
    \/ RmDeleteOk
    \/ RmDeleteRaises
    \/ BRescan

SpecBulk == InitBulk /\ [][NextBulk]_vars

\* ====================================================== parse_specification
MaxSpecLen == 4

\* the characters of a specification: a letter, the underscore, the colon, the
\* double and the single quote, the dot, the hyphen, the line feed and the
\* character chr(2)
Chars == {"a", "_", ":", "dq", "sq", ".", "-", "lf", "stx"}

\* [a-zA-Z0-9_]
EnvClass == {"a", "_"}

\* ["\'] and ['\"]
QuoteClass == {"dq", "sq"}

\* `.` of a pattern compiled without DOTALL: any character but the line feed
DotClass == Chars \ {"lf"}

\* '\2' of a string literal that is not raw: the character chr(2)
BackslashTwo == "stx"

Strings == UNION {[1..n -> Chars] : n \in 0..MaxSpecLen}

AllIn(s, class) == \A i \in DOMAIN s : s[i] \in class

\* what [a-zA-Z0-9_]* takes at the start of s: the longest run of the class
EnvLen(s) ==
    LET ns == {n \in 0..Len(s) : \A i \in 1..n : s[i] \in EnvClass}
    IN CHOOSE n \in ns : \A m \in ns : m <= n

NoMatch == [matched |-> FALSE, env |-> <<>>, id_or_name |-> <<>>]

Match(env, id) == [matched |-> TRUE, env |-> env, id_or_name |-> id]

\* re.fullmatch('^(?P<env>[a-zA-Z0-9_]*):(?P<id_or_name>.*)$', spec)
FirstPattern(s) ==
    LET n == EnvLen(s)
        rest == SubSeq(s, n + 2, Len(s))
    IN IF n < Len(s) /\ s[n + 1] = ":" /\ AllIn(rest, DotClass)
       THEN Match(SubSeq(s, 1, n), rest)
       ELSE NoMatch

\* re.fullmatch('^(?P<env>[a-zA-Z0-9_]*):(["\'])(?P<id_or_name>.*)\2$', spec)
SecondPattern(s) ==
    LET n == EnvLen(s)
        inner == SubSeq(s, n + 3, Len(s) - 1)
    IN IF /\ Len(s) >= n + 3
          /\ s[n + 1] = ":"
          /\ s[n + 2] \in QuoteClass
          /\ s[Len(s)] = BackslashTwo
          /\ AllIn(inner, DotClass)
       THEN Match(SubSeq(s, 1, n), inner)
       ELSE NoMatch

\* re.fullmatch(r"(?P<quote>['\"]|)(?P<id_or_name>.*?)(?P=quote)", spec): the
\* quote alternative is tried first, the empty alternative after it
ThirdPattern(s) ==
    LET inner == SubSeq(s, 2, Len(s) - 1)
    IN IF /\ Len(s) >= 2
          /\ s[1] \in QuoteClass
          /\ s[Len(s)] = s[1]
          /\ AllIn(inner, DotClass)
       THEN Match(<<>>, inner)
       ELSE IF AllIn(s, DotClass) THEN Match(<<>>, s) ELSE NoMatch

Returned(m) == [raised |-> FALSE, env |-> m.env, id_or_name |-> m.id_or_name]

ValueError == [raised |-> TRUE, env |-> <<>>, id_or_name |-> <<>>]

\* parse_specification(spec): the three patterns in turn, then ValueError
ParseSpecification(s) ==
    IF FirstPattern(s).matched THEN Returned(FirstPattern(s))
    ELSE IF SecondPattern(s).matched THEN Returned(SecondPattern(s))
    ELSE IF ThirdPattern(s).matched
         THEN Returned([ThirdPattern(s) EXCEPT !.env = <<>>])
         ELSE ValueError

InitParse ==
    /\ CpIdle
    /\ BulkIdle
    /\ StreamIdle
    /\ spec \in Strings
    /\ parsed = NoParse
    /\ ppc = "call"

\* the call returns a pair
ParseReturns ==
    /\ ppc = "call"
    /\ ~ParseSpecification(spec).raised
    /\ parsed' = ParseSpecification(spec)
    /\ ppc' = "returned"
    /\ UNCHANGED <<spec, cpVars, bulkVars, streamVars>>

\* the call raises ValueError
ParseRaises ==
    /\ ppc = "call"
    /\ ParseSpecification(spec).raised
    /\ parsed' = ParseSpecification(spec)
    /\ ppc' = "raised"
    /\ UNCHANGED <<spec, cpVars, bulkVars, streamVars>>

NextParse ==
    \/ ParseReturns
    \/ ParseRaises

SpecParse == InitParse /\ [][NextParse]_vars

\* ==================================================== data_to_upload_stream
MaxChunks == 3
MaxChunkLen == 3
MaxBuffer == 2
MaxPull == 2
ExtraPulls == 2

RECURSIVE SumTo(_, _)
\* the number of bytes of the first k chunks of the given lengths
SumTo(lens, k) == IF k = 0 THEN 0 ELSE lens[k] + SumTo(lens, k - 1)

\* chunks of the given lengths; the bytes are numbered through, so that every
\* byte of the data differs from every other
ChunksOf(lens) ==
    [k \in 1..Len(lens) |-> [j \in 1..lens[k] |-> SumTo(lens, k - 1) + j]]

ChunkLengths == UNION {[1..n -> 0..MaxChunkLen] : n \in 0..MaxChunks}

RECURSIVE Flatten(_)
\* the concatenation of the sequences of a sequence
Flatten(ss) == IF ss = <<>> THEN <<>> ELSE Head(ss) \o Flatten(Tail(ss))

\* chunk[:n]
Take(s, n) == SubSeq(s, 1, IF n < Len(s) THEN n ELSE Len(s))

\* chunk[n:]
Drop(s, n) == SubSeq(s, n + 1, Len(s))

\* what a call of readinto gives: the bytes stored in b, the iterator and
\* remaining_data after it, whether it raised, and whether it was made with
\* the iterator exhausted and no remaining data
RawResult(out, it, rem, raised, dry) ==
    [out |-> out, it |-> it, rem |-> rem, raised |-> raised, dry |-> dry]

\* ReadInto without the `except StopIteration`
ReadInto_NoStopGuard(max, it, rem) ==
    IF rem = <<>> /\ it = <<>>
    THEN RawResult(<<>>, it, rem, TRUE, TRUE)
    ELSE LET chunk == IF rem # <<>> THEN rem ELSE Head(it)
             it2 == IF rem # <<>> THEN it ELSE Tail(it)
         IN RawResult(Take(chunk, max), it2, Drop(chunk, max), FALSE, FALSE)

\* ReadInto that takes the next chunk whatever remaining_data holds
ReadInto_AlwaysNext(max, it, rem) ==
    IF it = <<>>
    THEN RawResult(<<>>, it, rem, FALSE, rem = <<>>)
    ELSE RawResult(Take(Head(it), max), Tail(it), Drop(Head(it), max), FALSE, FALSE)

\* UploadStream.readinto(b) with len(b) = max, lines 761-769
ReadInto(max, it, rem) ==
    IF rem = <<>> /\ it = <<>>
    THEN RawResult(<<>>, it, rem, FALSE, TRUE)
    ELSE LET chunk == IF rem # <<>> THEN rem ELSE Head(it)
             it2 == IF rem # <<>> THEN it ELSE Tail(it)
         IN RawResult(Take(chunk, max), it2, Drop(chunk, max), FALSE, FALSE)

\* what read(n) of the BufferedReader gives: the bytes returned, the state of
\* the raw stream and of the buffer after it, the calls of readinto it made
\* (each with the size asked for, the length of remaining_data before it and
\* whether it took a chunk from the iterator)
ReadResult(out, it, rem, buf, raised, raw) ==
    [out |-> out, it |-> it, rem |-> rem, buf |-> buf, raised |-> raised, raw |-> raw]

RawEntry(max, it, rem, r) ==
    [n |-> Len(r.out), dry |-> r.dry, asked |-> max, left |-> Len(rem),
     fetched |-> Len(r.it) < Len(it)]

RECURSIVE FillLoop(_, _, _, _, _, _, _)
\* BufferedReader.read: the buffer is filled from the raw stream until the
\* rest of the request is served or the raw stream gives nothing
FillLoop(out, want, it, rem, readEnd, bs, raw) ==
    IF want = 0 \/ readEnd >= bs
    THEN ReadResult(out, it, rem, <<>>, FALSE, raw)
    ELSE LET r == ReadInto(bs - readEnd, it, rem)
             raw2 == Append(raw, RawEntry(bs - readEnd, it, rem, r))
         IN IF r.raised THEN ReadResult(out, r.it, r.rem, <<>>, TRUE, raw2)
            ELSE IF r.out = <<>> THEN ReadResult(out, r.it, r.rem, <<>>, FALSE, raw2)
            ELSE IF want > Len(r.out)
                 THEN FillLoop(out \o r.out, want - Len(r.out), r.it, r.rem,
                               readEnd + Len(r.out), bs, raw2)
                 ELSE ReadResult(out \o Take(r.out, want), r.it, r.rem,
                                 Drop(r.out, want), FALSE, raw2)

RECURSIVE DirectLoop(_, _, _, _, _, _)
\* BufferedReader.read: whole blocks of buffer_size bytes are read from the
\* raw stream past the buffer
DirectLoop(out, want, it, rem, bs, raw) ==
    LET blocks == (want \div bs) * bs
    IN IF blocks = 0
       THEN FillLoop(out, want, it, rem, 0, bs, raw)
       ELSE LET r == ReadInto(blocks, it, rem)
                raw2 == Append(raw, RawEntry(blocks, it, rem, r))
            IN IF r.raised THEN ReadResult(out, r.it, r.rem, <<>>, TRUE, raw2)
               ELSE IF r.out = <<>> THEN ReadResult(out, r.it, r.rem, <<>>, FALSE, raw2)
               ELSE DirectLoop(out \o r.out, want - Len(r.out), r.it, r.rem, bs, raw2)

\* read(n) on io.BufferedReader(UploadStream(iter(data)), buffer_size=bs)
BufferedRead(n, it, rem, buf, bs) ==
    IF n <= Len(buf)
    THEN ReadResult(Take(buf, n), it, rem, Drop(buf, n), FALSE, <<>>)
    ELSE DirectLoop(buf, n - Len(buf), it, rem, bs, <<>>)

\* the reads the consumer makes at most: one for every byte, one for every
\* chunk, and some more
PullCap == Len(Flatten(data)) + Len(data) + ExtraPulls

InitStream ==
    /\ CpIdle
    /\ BulkIdle
    /\ ParseIdle
    /\ \E lens \in ChunkLengths : data = ChunksOf(lens)
    /\ bufferSize \in 1..MaxBuffer
    /\ pullSize \in 1..MaxPull
    /\ dataIter = data
    /\ remainingData = <<>>
    /\ rbuf = <<>>
    /\ pulls = <<>>
    /\ spc = "open"

\* the consumer reads pullSize bytes from the stream
Pull ==
    /\ spc = "open"
    /\ Len(pulls) < PullCap
    /\ LET r == BufferedRead(pullSize, dataIter, remainingData, rbuf, bufferSize)
           dry == dataIter = <<>> /\ remainingData = <<>> /\ rbuf = <<>>
       IN /\ dataIter' = r.it
          /\ remainingData' = r.rem
          /\ rbuf' = r.buf
          /\ pulls' = Append(pulls, [out |-> r.out, dry |-> dry, raw |-> r.raw])
          /\ spc' = IF r.raised THEN "raised" ELSE "open"
    /\ UNCHANGED <<data, bufferSize, pullSize, cpVars, bulkVars, parseVars>>

NextStream ==
    \/ Pull

SpecStream == InitStream /\ [][NextStream]_vars

\* ================================================================ claims
Ids(reg) == {im.id : im \in reg}

\* the calls of the log with the given operation
CallsOf(op) == {i \in DOMAIN calls : calls[i].op = op}

\* the images of the destination that had the destination name before the run
PreNamed == {p \in pre : destName # EmptyStr /\ p.name = destName}

\* C1: with strategy replace, a delete of a pre-existing destination image of
\* the destination name is issued only after the upload of the new image has
\* succeeded.
C1_DeleteOnlyAfterUpload ==
    strategy = "replace" =>
        \A i \in CallsOf("delete") :
            calls[i].id \in Ids(PreNamed) =>
                \E j \in 1..(i - 1) : calls[j].op = "upload" /\ calls[j].ok

\* C2: when the upload fails after a successful create, the only delete issued
\* after the create is for the id the create returned; when that delete
\* succeeds the created image is gone, the images that were there are as they
\* were after the create, and the run ends reporting the upload error.
C2_CompensatingDelete ==
    (pc = "exit" /\ ue # NoExc) =>
        LET n == Len(calls)
        IN /\ n >= 2
           /\ calls[n].op = "delete"
           /\ calls[n].id = destImageId
           /\ \E j \in 1..(n - 1) :
                /\ calls[j] = Call("create", destImageId, TRUE)
                /\ \A m \in (j + 1)..n :
                     calls[m].op = "delete" => (m = n /\ calls[m].id = calls[j].id)
                /\ \A p \in pre : p \in dest \/
                        \E m \in 1..(j - 1) : calls[m] = Call("delete", p.id, TRUE)
           /\ calls[n].ok =>
                /\ destImageId \notin Ids(dest)
                /\ exitMsg.kind = "upload_failed"
                /\ ue \in exitMsg.causes
                /\ printedId = 0

C2_Witness ==
    /\ pc = "exit"
    /\ ue = "upload_error"
    /\ de = NoExc
    /\ exitMsg.kind = "upload_failed"
    /\ dest # {}

\* C3: when the upload fails and the compensating delete fails too, the failure
\* reported at termination contains both exceptions.
C3_BothFailuresReported ==
    (pc = "exit" /\ ue # NoExc /\ de # NoExc) =>
        {ue, de} \subseteq exitMsg.causes

\* C4: with strategy none and an image of the destination name in the
\* destination inventory, the run issues no create, upload or delete call and
\* does not succeed; a second run after a successful first one creates nothing.
C4_NoneNeverDuplicates ==
    strategy = "none" =>
        /\ PreNamed # {} =>
              /\ CallsOf("create") \cup CallsOf("upload") \cup CallsOf("delete") = {}
              /\ pc \notin {"create", "upload", "compensate", "done"}
              /\ dest = pre
        /\ runNo = 2 =>
              /\ \E p \in pre : p.id = NewBase + 1 /\ p.name = DestImageName(argDest, prevSource)
              /\ CallsOf("create") = {}
              /\ pc # "done"
        /\ \A a, b \in dest :
              (a.id > NewBase /\ b.id > NewBase /\ a.name = b.name) => a = b

C4_Witness ==
    /\ strategy = "none"
    /\ runNo = 2
    /\ pc = "exit"
    /\ exitMsg.kind = "duplicate_name"
    /\ Len(calls) = 1

\* C5: with strategy replace, when the run ends successfully exactly one image
\* has the destination name, it is the image this run created and uploaded,
\* and every image that had the name before the run is gone.
C5_ReplaceLeavesOne ==
    (strategy = "replace" /\ pc = "done") =>
        /\ Cardinality({d \in dest : d.name = destName}) = 1
        /\ \A d \in dest : d.name = destName =>
              /\ d.id = destImageId
              /\ d.id \notin Ids(pre)
              /\ d.uploaded
              /\ \E i \in CallsOf("create") : calls[i] = Call("create", d.id, TRUE)
              /\ \E i \in CallsOf("upload") : calls[i] = Call("upload", d.id, TRUE)
        /\ Ids(PreNamed) \cap Ids(dest) = {}

C5_Witness ==
    /\ strategy = "replace"
    /\ pc = "done"
    /\ Cardinality(PreNamed) >= 2

\* C6: no delete call is ever issued for a destination image whose protected
\* property is true.
C6_NoDeleteOfProtected ==
    \A i \in CallsOf("delete") :
        ~ \E p \in pre : p.id = calls[i].id /\ p.protected

\* C7: the scan puts an id in the deletable list iff its image is not
\* protected and in the protected list otherwise, the lists partition the
\* listed ids, and every delete call is for an id of the deletable list.
C7_PartitionAndDeletes ==
    bpc \notin {"off", "parse", "scan"} =>
        /\ \A im \in scanned :
              /\ (im.id \in Range(toDelete)) <=> ~im.protected
              /\ (im.id \in Range(toLeave)) <=> im.protected
        /\ Range(toDelete) \cup Range(toLeave) = Ids(scanned)
        /\ Range(toDelete) \cap Range(toLeave) = {}
        /\ Len(toDelete) + Len(toLeave) = Cardinality(scanned)
        /\ \A i \in DOMAIN delCalls :
              /\ delCalls[i] \in Range(toDelete)
              /\ delCalls[i] \notin Range(toLeave)
              /\ \A im \in scanned : im.id = delCalls[i] => ~im.protected

C7_Witness ==
    /\ bpc = "exit"
    /\ delCalls # <<>>
    /\ toLeave # <<>>

\* C8: never more than max_simultaneous_deletes delete calls are in flight;
\* the other ids wait in the queue.
C8_BoundedInFlight ==
    bpc \notin {"off", "parse"} => Cardinality(InFlight) <= maxDeletes

C8_Witness ==
    /\ maxDeletes >= 1
    /\ Cardinality(InFlight) = maxDeletes
    /\ queue # <<>>

RECURSIVE CountIn(_, _)
\* the number of times x occurs in the sequence
CountIn(sq, x) ==
    IF sq = <<>> THEN 0
    ELSE (IF Head(sq) = x THEN 1 ELSE 0) + CountIn(Tail(sq), x)

\* C9: when _delete_images returns, for every id of the list a delete call was
\* started and has completed exactly once and on_complete has run for it;
\* nothing is in flight.
C9_AllAwaited ==
    retVal # -1 =>
        /\ \A k \in DOMAIN toDelete :
              /\ CountIn(delCalls, toDelete[k]) = 1
              /\ Len(returned[k]) = 1
              /\ fut[k].st = "finished"
              /\ cbRuns[k] = 1
        /\ Len(delCalls) = Len(toDelete)
        /\ InFlight = {}
        /\ queue = <<>>
        /\ \A t \in DOMAIN thr : thr[t].st = "idle"

C9_Witness ==
    /\ retVal # -1
    /\ Len(toDelete) >= 2
    /\ maxDeletes >= 2
    /\ \E k \in DOMAIN returned : returned[k] # <<"ok">>

\* the delete calls of the list that failed
FailedDeletes == {k \in DOMAIN returned : returned[k] # <<>> /\ returned[k][1] # "ok"}

\* C10: every progress line has succeeded + failed within total, no update is
\* lost, and for N ids of which K deletes fail the final tally is
\* completed = N - K and failed = K.
C10_TallyConsistent ==
    tool = "glancenuke" =>
        /\ \A j \in DOMAIN emitted :
              emitted[j][1] + emitted[j][3] <= emitted[j][2]
        /\ retVal # -1 =>
              /\ failed = Cardinality(FailedDeletes)
              /\ complete - failed = Len(toDelete) - Cardinality(FailedDeletes)
              /\ Len(emitted) = Len(toDelete)

\* C11: in _delete_images every delete call that fails, for whatever reason,
\* is counted as failed, no failure leaves the completion handler, and the
\* value returned is the number of ids whose delete call succeeded.
C11_FailuresIsolated ==
    tool = "glancenuke" =>
        /\ bpc # "raise_shutdown"
        /\ retVal # -1 =>
              /\ failed = Cardinality(FailedDeletes)
              /\ retVal = Len(toDelete) - Cardinality(FailedDeletes)

\* _delete_images was called and main has gone past the call
SchedulerLeft ==
    /\ tool = "glancenuke"
    /\ bpc \in {"rescan", "exit"}
    /\ ~(quiet /\ ~noConsent)
    /\ report.kind # "invalid_consent"

\* C12: _delete_images called with a maximum concurrency of 0 attempts every
\* id and returns without an error.
C12_ZeroIsSerial ==
    (SchedulerLeft /\ maxDeletes = 0) =>
        /\ retVal # -1
        /\ report.kind # "traceback"
        /\ \A k \in DOMAIN toDelete : CountIn(delCalls, toDelete[k]) = 1

\* C13: when the scan after the deletes finds a requested id still there, the
\* exit code of glancenuke is not 0.
C13_LeftoverExitsNonZero ==
    (tool = "glancenuke" /\ bpc = "exit" /\ report.kind = "could_not_delete") =>
        exitCode # 0

\* the call of parse_specification is over
Parsed == ppc \in {"returned", "raised"}

\* the positions of spec that hold a colon
Colons == {i \in DOMAIN spec : spec[i] = ":"}

\* spec without its first and its last character
Inner == SubSeq(spec, 2, Len(spec) - 1)

\* C14: for a specification <env>:<rest> whose <env> consists of letters,
\* digits and underscores, parse_specification returns (<env>, <rest>), <rest>
\* verbatim with the colons it contains.
C14_EnvRestVerbatim ==
    Parsed =>
        \A n \in 0..(Len(spec) - 1) :
            (AllIn(SubSeq(spec, 1, n), EnvClass) /\ spec[n + 1] = ":") =>
                /\ ~parsed.raised
                /\ parsed.env = SubSeq(spec, 1, n)
                /\ parsed.id_or_name = SubSeq(spec, n + 2, Len(spec))

\* C15: for a specification <env>:<rest> whose <env> contains a dot or a
\* hyphen, parse_specification returns environment <env> and identifier <rest>.
C15_DottedEnv ==
    Parsed =>
        \A n \in 0..(Len(spec) - 1) :
            (/\ AllIn(SubSeq(spec, 1, n), EnvClass \cup {".", "-"})
             /\ \E i \in 1..n : spec[i] \in {".", "-"}
             /\ spec[n + 1] = ":") =>
                /\ ~parsed.raised
                /\ parsed.env = SubSeq(spec, 1, n)
                /\ parsed.id_or_name = SubSeq(spec, n + 2, Len(spec))

\* C16: for a specification <env>:"<rest>" or <env>:'<rest>',
\* parse_specification returns (<env>, <rest>), the one pair of surrounding
\* quotes stripped.
C16_QuotedRest ==
    Parsed =>
        \A n \in 0..(Len(spec) - 3) :
            (/\ AllIn(SubSeq(spec, 1, n), EnvClass)
             /\ spec[n + 1] = ":"
             /\ spec[n + 2] \in QuoteClass
             /\ spec[Len(spec)] = spec[n + 2]) =>
                /\ ~parsed.raised
                /\ parsed.env = SubSeq(spec, 1, n)
                /\ parsed.id_or_name = SubSeq(spec, n + 3, Len(spec) - 1)

\* C17: for a specification without environment prefix, parse_specification
\* returns the empty environment and the value, a pair of surrounding quotes
\* stripped iff its first and its last character are the same quote
\* character; otherwise the value unchanged.
C17_BareValue ==
    (Parsed /\ Colons = {}) =>
        /\ ~parsed.raised
        /\ parsed.env = <<>>
        /\ parsed.id_or_name =
              IF Len(spec) >= 2 /\ spec[1] \in QuoteClass /\ spec[Len(spec)] = spec[1]
              THEN Inner
              ELSE spec

\* the reads that returned no bytes
EofPulls == {i \in DOMAIN pulls : pulls[i].out = <<>>}

\* the bytes returned by the first k reads, in order
PulledUpTo(k) == Flatten([i \in 1..k |-> pulls[i].out])

\* C18: for every sequence of chunks, empty chunks included, the bytes the
\* reads return up to the first read of zero length are the concatenation of
\* all chunks in order.
C18_PullsAreTheData ==
    \A i \in EofPulls :
        (\A j \in EofPulls : i <= j) => PulledUpTo(i - 1) = Flatten(data)

\* the reads made with the chunk sequence exhausted and nothing left over
DryPulls == {i \in DOMAIN pulls : pulls[i].dry}

\* C19: once the chunk sequence is exhausted and no part of a chunk is left,
\* every read returns zero bytes and none raises, however many are made; data
\* without chunks gives zero bytes on the first read.
C19_ExhaustedGivesZero ==
    /\ spc # "raised"
    /\ \A i \in DryPulls :
          /\ pulls[i].out = <<>>
          /\ \A k \in DOMAIN pulls[i].raw : pulls[i].raw[k].n = 0
          /\ \A j \in DOMAIN pulls : j >= i => j \in DryPulls
    /\ (data = <<>> /\ pulls # <<>>) => pulls[1].out = <<>>

C19_Witness ==
    /\ Len(data) >= 2
    /\ \A k \in DOMAIN data : data[k] # <<>>
    /\ \E k \in DOMAIN data : Len(data[k]) > bufferSize
    /\ Cardinality(DryPulls) >= 2
    /\ PulledUpTo(Len(pulls)) = Flatten(data)

\* C20: when the source image has no data, no delete of the image the run
\* created is issued and the run does not end in failure.
C20_NoDataIsNoFailure ==
    ue = "type_error" =>
        /\ \A i \in CallsOf("delete") : calls[i].id # destImageId
        /\ pc # "exit"

\* C21: after a run with strategy rename every image that had the destination
\* name before the run still exists, under a different name that was not a
\* name of the destination inventory.
C21_RenameKeepsOldImages ==
    (strategy = "rename" /\ pc = "done") =>
        \A p \in PreNamed :
            \E d \in dest :
                /\ d.id = p.id
                /\ d.name # p.name
                /\ d.name \notin {q.name : q \in pre}

\* the run has ended in failure at the creation of the destination image or
\* at the upload
FailedAtCreateOrUpload ==
    /\ pc = "exit"
    /\ exitMsg.kind \in {"create_failed", "upload_failed", "delete_after_upload_failed"}

\* C22: with strategy replace, when the run fails at the creation of the
\* destination image or during the upload, every destination image that
\* existed before the run still exists.
C22_FailedReplaceKeepsOld ==
    (strategy = "replace" /\ FailedAtCreateOrUpload) =>
        \A p \in pre : p \in dest

\* C23: with strategy replace, when the delete of a replaced image fails, the
\* run terminates reporting it and the new destination image, created and
\* uploaded, exists.
C23_FailedDeleteKeepsNew ==
    (strategy = "replace" /\ exitMsg.kind = "delete_conflicting_failed") =>
        /\ pc = "exit"
        /\ \E d \in dest :
              /\ d.id \notin Ids(pre)
              /\ d.name = destName
              /\ d.uploaded

\* the run has ended because of what the source lookup gave
SourceLookupFailed == exitMsg.kind \in {"multiple_source", "source_not_found"}

\* C24: the source is looked up by id first and by name only when no image
\* has that id; when the scan finds several images of the name, or none, the
\* run ends in failure before any call to the destination registry; with
\* exactly one match that image is the one copied.
C24_SourceLookup ==
    pc \notin {"off", "find_source"} =>
        /\ lookup.got # NoImage =>
              /\ ~SourceLookupFailed
              /\ sourceImage = lookup.got
        /\ (lookup.got = NoImage /\ Cardinality(lookup.named) = 1) =>
              /\ ~SourceLookupFailed
              /\ sourceImage \in lookup.named
        /\ (lookup.got = NoImage /\ Cardinality(lookup.named) # 1) =>
              /\ pc = "exit"
              /\ exitMsg.kind = IF lookup.named = {} THEN "source_not_found"
                                ELSE "multiple_source"
              /\ sourceImage = NoImage
              /\ calls = <<>>
              /\ dest = pre

C24_Witness ==
    /\ pc = "done"
    /\ lookup.got = NoImage
    /\ Cardinality(lookup.named) = 1
    /\ sourceImage \in lookup.named

\* C25: a run issues at most one create call, and when the create call fails
\* the run ends in failure with the create as its last call: no upload, no
\* delete after it.
C25_CreateOnceNoRollback ==
    /\ Cardinality(CallsOf("create")) <= 1
    /\ \A i \in CallsOf("create") :
          ~calls[i].ok =>
              /\ i = Len(calls)
              /\ pc = "exit"
              /\ exitMsg.kind = "create_failed"
              /\ printedId = 0

C25_Witness ==
    /\ pc = "exit"
    /\ exitMsg.kind = "create_failed"
    /\ strategy = "replace"
    /\ CallsOf("delete") # {}

\* the bytes the stream holds between reads: those of the reader's buffer and
\* remaining_data
Held == rbuf \o remainingData

\* s is the end of t
IsSuffix(s, t) == Len(s) <= Len(t) /\ s = SubSeq(t, Len(t) - Len(s) + 1, Len(t))

\* C26: between reads the stream holds at most the unconsumed end of one
\* chunk, a chunk is taken from the source only when nothing of the previous
\* one is left, and a read returns at most as many bytes as were asked for.
C26_OneChunkHeld ==
    /\ \/ Held = <<>>
       \/ \E k \in DOMAIN data :
             /\ IsSuffix(Held, data[k])
             /\ dataIter = SubSeq(data, k + 1, Len(data))
    /\ PulledUpTo(Len(pulls)) \o Held \o Flatten(dataIter) = Flatten(data)
    /\ \A i \in DOMAIN pulls :
          /\ Len(pulls[i].out) <= pullSize
          /\ \A k \in DOMAIN pulls[i].raw :
                /\ pulls[i].raw[k].n <= pulls[i].raw[k].asked
                /\ pulls[i].raw[k].fetched => pulls[i].raw[k].left = 0

C26_Witness ==
    /\ pulls # <<>>
    /\ rbuf # <<>>
    /\ remainingData # <<>>
    /\ dataIter # <<>>

\* the delete call of every id of the initial list has ended
AllDeletesEnded ==
    /\ toDelete # <<>>
    /\ \A k \in DOMAIN toDelete : returned[k] # <<>>

\* the ids of the initial list that the registry still lists as deletable
StillThere == Range(toDelete) \cap Range(GetImages(tenant).to_delete)

\* C27: when the delete of every id of the initial list has ended and the run
\* is over, the scan after the deletes was made: the ids reported as not
\* deleted are exactly those of the initial list that are still deletable, and
\* when there is none the run reports that all images are gone.
C27_RescanReportsLeftovers ==
    (bpc = "exit" /\ AllDeletesEnded) =>
        /\ report.kind \in {"could_not_delete", "all_gone"}
        /\ report.ids = StillThere
        /\ report.kind = "all_gone" <=> StillThere = {}

\* C28: a delete call is issued only with -y or after an agreed answer; a
\* refused answer ends the run with code 1 and no delete call; -q without -y
\* ends the run with code 1 before the registry is listed or asked to delete.
C28_NoDeleteWithoutConsent ==
    /\ delCalls # <<>> =>
          \/ noConsent
          \/ consent.asked /\ LowerStrip(consent.line) \in CONSENT_AGREED
    /\ (consent.asked /\ LowerStrip(consent.line) \notin CONSENT_AGREED) =>
          /\ bpc = "exit"
          /\ exitCode = 1
          /\ report.kind = "invalid_consent"
          /\ delCalls = <<>>
    /\ noConsent => ~consent.asked
    /\ (quiet /\ ~noConsent /\ bpc # "parse") =>
          /\ bpc = "exit"
          /\ exitCode = 1
          /\ scanned = {}
          /\ delCalls = <<>>
          /\ ~consent.asked

C28_Witness ==
    /\ delCalls # <<>>
    /\ ~noConsent
    /\ consent.line = " Ok "

\* C29: in glancerm, when a delete call has failed and the run is over, the
\* delete call of every id of the list was issued and the scan after the
\* deletes was made.
C29_RmFailureNotFatal ==
    (tool = "glancerm" /\ bpc = "exit" /\ FailedDeletes # {}) =>
        /\ \A k \in DOMAIN toDelete : CountIn(delCalls, toDelete[k]) = 1
        /\ report.kind \in {"could_not_delete", "all_gone"}

\* C30: when the initial scan finds nothing to delete, the run reports that
\* there are no images to delete and exits with code 0; consent is not asked,
\* no delete call is issued and the registry is not listed again.
C30_NothingToDelete ==
    (bpc \notin {"off", "parse", "scan"} /\ ~(quiet /\ ~noConsent) /\ toDelete = <<>>) =>
        /\ bpc = "exit"
        /\ report.kind = "no_images"
        /\ exitCode = 0
        /\ ~consent.asked
        /\ delCalls = <<>>

====
